---- MODULE Spec2Model ----
(***************************************************************************)
(* Inventory and invoicing application (inventory/models.py, views.py).    *)
(*                                                                         *)
(* The state is the content of the database tables (Product, Customer,     *)
(* Invoice with its InvoiceItems, StockHistory) and the HTTP requests in   *)
(* flight.  A request handler is cut into steps where it reads a row into  *)
(* a Python object and where it writes the object back, so two requests    *)
(* interleave between the read and the write as they do with more than     *)
(* one worker.  What a request posts is drawn when the handler uses it.    *)
(* Money is in pesewas (1/100 GHS): a DecimalField with decimal_places=2   *)
(* is an integer here.                                                     *)
(***************************************************************************)
EXTENDS Integers, Sequences, FiniteSets, TLC

VARIABLES
    product,    \* Product table: id -> [quantity, selling_price]
    customer,   \* Customer table: the set of customer names
    invoice,    \* Invoice table: id -> row, with its InvoiceItems
    ledger,     \* StockHistory table, in order of creation
    clock,      \* timezone.now(), advanced by every payment
    req,        \* the requests in flight: slot -> handler state
    message,    \* the message of the last request that ended (messages.*)
    served      \* the number of requests accepted so far, by kind

vars == <<product, customer, invoice, ledger, clock, req, message, served>>

(***************************************************************************)
(* Bounds of the model.                                                    *)
(***************************************************************************)
NumProducts == 1      \* products that can be created
MaxRequests == 2      \* requests in flight at the same time
MaxInvoices == 2      \* invoice rows
MaxItems    == 2      \* line items of one invoice
MaxQuantity == 2      \* largest quantity a request posts
MaxServed   == 4      \* requests accepted in one behaviour
MaxStock    == 2      \* of which update_stock and quick restock requests
MaxSaved    == 40     \* invoices already saved today when a creation starts

ProductIds  == 1..NumProducts
InvoiceIds  == 1..MaxInvoices
Slots       == 1..MaxRequests
Names       == {"c1"}                 \* new_customer_name
InitialQtys == {-1, 0, MaxQuantity}   \* int(request.POST['quantity']), unchecked
StockQtys   == -1..MaxQuantity        \* quantity posted to update_stock
ItemQtys    == 1..MaxQuantity         \* quantity of an invoice line
Actions     == {"add", "remove", "set"}

\* request.user: the views are open to the logged-in administrator only
UserOf(r) == "admin"

\* selling_price posted for product p: 0.30 and 9.99
PriceOf(p) == IF p % 2 = 1 THEN 30 ELSE 999

\* selling_price posted to edit_product: 0.50
EditPrices == {50}

(***************************************************************************)
(* Program constants.                                                      *)
(***************************************************************************)
TaxRate == 15       \* Invoice.tax_rate default, in percent

\* the width of the number in f"{prefix}{num:04d}", models.py line 116
Width == 4

Idle == [pc |-> "idle"]
NoTx == [product |-> <<>>, ledger |-> <<>>, customer |-> {}]
Msg(text) == [text |-> text, item |-> 0]

\* request r ends with a message: the response is sent, the worker is free
Finish(r, msg) ==
    /\ req' = [req EXCEPT ![r] = Idle]
    /\ message' = msg

Accept(kind) ==
    /\ served.stock + served.other < MaxServed
    /\ kind = "stock" => served.stock < MaxStock
    /\ served' = [served EXCEPT ![kind] = @ + 1]

Max(S) == CHOOSE x \in S : \A y \in S : y <= x
Min(S) == CHOOSE x \in S : \A y \in S : x <= y

RemoveAt(s, k) == SubSeq(s, 1, k - 1) \o SubSeq(s, k + 1, Len(s))

(***************************************************************************)
(* StockHistory.objects.create(...): the row as given; create() does not   *)
(* call clean().                                                           *)
(***************************************************************************)
StockHistory(p, ttype, qty, note, user) ==
    [product |-> p, transaction_type |-> ttype, quantity |-> qty,
     note |-> note, created_by |-> user]

(***************************************************************************)
(* Transactions.  What a transaction.atomic() block has written is kept    *)
(* with the request (tx) and reaches the tables at commit; a rollback      *)
(* drops it.  A transaction that has written a product row holds the row   *)
(* until it ends; another writer of the row waits.                         *)
(***************************************************************************)
InTx(r) == "tx" \in DOMAIN req[r]

LockedByOther(r, p) ==
    \E o \in Slots \ {r} : InTx(o) /\ p \in DOMAIN req[o].tx.product

\* the product table after the transaction's rows are written
CommitProducts(tx) ==
    [p \in DOMAIN product |-> IF p \in DOMAIN tx.product THEN tx.product[p] ELSE product[p]]

\* a rollback that let the written rows through
RollbackProducts_Kept(tx) == CommitProducts(tx)

\* the tables after a rollback: nothing the transaction wrote
RollbackProducts(tx) == product
RollbackLedger(tx) == ledger

(***************************************************************************)
(* Invoice totals, Invoice.save lines 93-106.  update() stores the         *)
(* Decimal in a column of two decimal places: the value is quantized.      *)
(***************************************************************************)
\* a line total taken from the product's selling price of the moment
line_total_CurrentPrice(item) == item.quantity * product[item.product].selling_price

line_total(item) == item.quantity * item.unit_price

\* sum(item.line_total for item in self.items.all())
RECURSIVE Subtotal(_)
Subtotal(items) ==
    IF Len(items) = 0 THEN 0 ELSE line_total(Head(items)) + Subtotal(Tail(items))

\* n/d rounded to an integer, for n >= 0: Decimal.quantize in the default
\* context, ROUND_HALF_EVEN
Quantize(n, d) ==
    LET q == n \div d
        m == n % d
    IN  IF 2 * m < d THEN q
        ELSE IF 2 * m > d THEN q + 1
        ELSE IF q % 2 = 0 THEN q ELSE q + 1

TaxAmount(subtotal) == Quantize(subtotal * TaxRate, 100)

TotalAmount(subtotal) == Quantize(subtotal * 100 + subtotal * TaxRate, 100)

\* a save that writes the row and leaves the stored totals as they are
InvoiceSave_StaleTotals(invs, i, m) ==
    [invs EXCEPT ![i] = [@ EXCEPT !.is_paid = m.is_paid, !.paid_at = m.paid_at]]

\* Invoice.save() of the loaded object m for row i: the row's own fields
\* are written from the object, the totals from the items now in the table
InvoiceSave(invs, i, m) ==
    LET sub == Subtotal(invs[i].items) IN
    [invs EXCEPT ![i] =
        [@ EXCEPT !.is_paid = m.is_paid,
                  !.paid_at = m.paid_at,
                  !.subtotal = sub,
                  !.tax_amount = TaxAmount(sub),
                  !.total_amount = TotalAmount(sub)]]

\* the invoices request r can read: committed, or written by r itself
Visible(r) == {i \in DOMAIN invoice : invoice[i].txn \in {0, r}}

(***************************************************************************)
(* Invoice._generate_invoice_number, models.py lines 107-116.  The stored  *)
(* invoice_number is the text prefix + Format(num); the model keeps num    *)
(* and the day fixed, so the prefix is the same for every row.  Max() of   *)
(* the database compares the texts, character by character.                *)
(***************************************************************************)
\* the decimal digits of n
RECURSIVE Digits(_)
Digits(n) == IF n < 10 THEN <<n>> ELSE Append(Digits(n \div 10), n % 10)

\* f"{num:04d}": padded with zeros to Width digits, never cut
Format(n) ==
    LET d == Digits(n)
    IN  IF Len(d) >= Width THEN d ELSE [k \in 1..(Width - Len(d)) |-> 0] \o d

\* int(last.split('-')[-1])
RECURSIVE ParseInt(_)
ParseInt(d) ==
    IF d = <<>> THEN 0 ELSE ParseInt(SubSeq(d, 1, Len(d) - 1)) * 10 + d[Len(d)]

\* a < b as texts: the first differing character decides, a prefix is smaller
StrLess(a, b) ==
    LET diff == {k \in 1..Min({Len(a), Len(b)}) : a[k] # b[k]}
    IN  IF diff = {} THEN Len(a) < Len(b) ELSE a[Min(diff)] < b[Min(diff)]

\* row ids are given out lowest free first: none lies above TopId
TopId == IF Cardinality(DOMAIN invoice) > MaxInvoices
         THEN Cardinality(DOMAIN invoice) ELSE MaxInvoices

\* aggregate(Max('invoice_number')) over the rows lo..hi that r can see;
\* the empty text stands for None
RECURSIVE LastNumber(_, _, _)
LastNumber(r, lo, hi) ==
    IF lo = hi
    THEN IF lo \in DOMAIN invoice /\ invoice[lo].txn \in {0, r}
         THEN Format(invoice[lo].invoice_number) ELSE <<>>
    ELSE LET mid == (lo + hi) \div 2
             a   == LastNumber(r, lo, mid)
             b   == LastNumber(r, mid + 1, hi)
         IN  IF StrLess(a, b) THEN b ELSE a

generate_invoice_number(r) ==
    LET last == LastNumber(r, 1, TopId)
    IN  IF last # <<>> THEN ParseInt(last) + 1 ELSE 1

Init ==
    /\ product = <<>>
    /\ customer = {}
    /\ invoice = <<>>
    /\ ledger = <<>>
    /\ clock = 0
    /\ req = [r \in Slots |-> Idle]
    /\ message = Msg("")
    /\ served = [stock |-> 0, other |-> 0]

(***************************************************************************)
(* add_product: reject a duplicate SKU, create the product, and write the  *)
(* 'Initial stock' entry when the quantity is not zero.                    *)
(***************************************************************************)
add_product(r, sku, qty) ==
    /\ req[r] = Idle
    /\ sku \notin DOMAIN product
    /\ sku = Cardinality(DOMAIN product) + 1
    /\ Accept("other")
    /\ product' = [p \in DOMAIN product \cup {sku} |->
                     IF p = sku THEN [quantity |-> qty, selling_price |-> PriceOf(sku)]
                     ELSE product[p]]
    /\ ledger' = IF qty # 0
                 THEN Append(ledger, StockHistory(sku, "IN", qty, <<"Initial stock", 0>>, UserOf(r)))
                 ELSE ledger
    /\ message' = Msg("Product added!")
    /\ UNCHANGED <<customer, invoice, clock, req>>

(***************************************************************************)
(* update_stock and the quick restock of low_stock_list.                   *)
(* StockLoad: get_object_or_404(Product), the row read into the handler.   *)
(***************************************************************************)
StockLoad(r, p) ==
    /\ req[r] = Idle
    /\ p \in DOMAIN product
    /\ Accept("stock")
    /\ req' = [req EXCEPT ![r] = [pc |-> "stock", product_id |-> p, p |-> product[p]]]
    /\ UNCHANGED <<product, customer, invoice, ledger, clock, message>>

\* a remove branch that adds
NewQuantity_RemoveAdds(old, action, qty) ==
    CASE action = "add"    -> old + qty
      [] action = "remove" -> old + qty
      [] action = "set"    -> qty

\* the quantity update_stock computes from the loaded row, lines 241-253
NewQuantity(old, action, qty) ==
    CASE action = "add"    -> old + qty
      [] action = "remove" -> old - qty
      [] action = "set"    -> qty

TransType(action) ==
    CASE action = "add" -> "IN" [] action = "remove" -> "OUT" [] action = "set" -> "ADJ"

TransQty(old, action, qty) ==
    CASE action = "add"    -> qty
      [] action = "remove" -> -qty
      [] action = "set"    -> qty - old

\* the body of update_stock, lines 233-265: product.save() writes the
\* whole loaded row back
update_stock(r, action, qty) ==
    LET q   == req[r]
        old == q.p.quantity
        new == NewQuantity(old, action, qty)
        tq  == TransQty(old, action, qty)
    IN
    /\ q.pc = "stock"
    /\ IF qty <= 0
       THEN /\ Finish(r, Msg("Quantity must be > 0"))
            /\ UNCHANGED <<product, ledger>>
       ELSE IF action = "remove" /\ qty > old
       THEN /\ Finish(r, Msg("Only in stock"))
            /\ UNCHANGED <<product, ledger>>
       ELSE /\ ~LockedByOther(r, q.product_id)
            /\ product' = [product EXCEPT ![q.product_id] = [q.p EXCEPT !.quantity = new]]
            /\ ledger' = IF tq # 0
                         THEN Append(ledger, StockHistory(q.product_id, TransType(action),
                                                          tq, <<"note", 0>>, UserOf(r)))
                         ELSE ledger
            /\ Finish(r, Msg("Stock updated!"))
    /\ UNCHANGED <<customer, invoice, clock, served>>

\* the quick restock of low_stock_list, lines 309-326.  The view opens no
\* transaction: p.save() (line 314) and StockHistory.objects.create (lines
\* 315-321) are two statements, each committed on its own.
low_stock_list(r, qty) ==
    LET q == req[r] IN
    /\ q.pc = "stock"
    /\ IF qty > 0
       THEN /\ ~LockedByOther(r, q.product_id)
            /\ product' = [product EXCEPT ![q.product_id] =
                             [q.p EXCEPT !.quantity = q.p.quantity + qty]]
            /\ req' = [req EXCEPT ![r] = [pc |-> "restock", product_id |-> q.product_id,
                                          qty |-> qty]]
            /\ UNCHANGED <<ledger, message>>
       ELSE /\ Finish(r, Msg(""))
            /\ UNCHANGED <<product, ledger>>
    /\ UNCHANGED <<customer, invoice, clock, served>>

\* lines 315-322: the ledger entry of the quick restock, then the response
RestockHistory(r) ==
    LET q == req[r] IN
    /\ q.pc = "restock"
    /\ ledger' = Append(ledger, StockHistory(q.product_id, "IN", q.qty,
                                             <<"Quick restock", 0>>, UserOf(r)))
    /\ Finish(r, Msg("Restocked"))
    /\ UNCHANGED <<product, customer, invoice, clock, served>>

(***************************************************************************)
(* edit_product, lines 272-287: the row read at line 273 gets the posted   *)
(* name, prices and threshold, and product.save() writes every field of    *)
(* it, the quantity it was read with included.                             *)
(***************************************************************************)
edit_product(r, price) ==
    LET q == req[r] IN
    /\ q.pc = "stock"
    /\ ~LockedByOther(r, q.product_id)
    /\ product' = [product EXCEPT ![q.product_id] = [q.p EXCEPT !.selling_price = price]]
    /\ Finish(r, Msg("Product updated!"))
    /\ UNCHANGED <<customer, invoice, ledger, clock, served>>

(***************************************************************************)
(* create_invoice.  CreateBegin: the transaction starts and Invoice.save   *)
(* computes the invoice number from the rows it can see.                   *)
(***************************************************************************)
CreateBegin(r) ==
    /\ req[r] = Idle
    /\ Cardinality(DOMAIN invoice) < MaxInvoices
    /\ Accept("other")
    /\ req' = [req EXCEPT ![r] = [pc |-> "create", invoice_number |-> generate_invoice_number(r)]]
    /\ UNCHANGED <<product, customer, invoice, ledger, clock, message>>

\* a column without the unique index
NumberTaken_NoIndex(n) == FALSE

\* the unique index on invoice_number, models.py line 66
NumberTaken(n) == \E i \in DOMAIN invoice : invoice[i].txn = 0 /\ invoice[i].invoice_number = n

NumberPending(r, n) ==
    \E i \in DOMAIN invoice : invoice[i].txn \notin {0, r} /\ invoice[i].invoice_number = n

\* the first posted line that asks for more than the product has, 0 if none
FirstShort(lines) ==
    LET short == {k \in 1..Len(lines) : product[lines[k][1]].quantity < lines[k][2]}
    IN  IF short = {} THEN 0 ELSE Min(short)

InvoiceItem(p, qty) ==
    [product |-> p, quantity |-> qty, unit_price |-> product[p].selling_price]

\* InvoiceItem.objects.create for each posted line, in order
RECURSIVE Items(_)
Items(lines) ==
    IF Len(lines) = 0 THEN <<>>
    ELSE <<InvoiceItem(Head(lines)[1], Head(lines)[2])>> \o Items(Tail(lines))

NewInvoice(r, n, items) ==
    [invoice_number |-> n, is_paid |-> FALSE, paid_at |-> 0,
     subtotal |-> Subtotal(items),
     tax_amount |-> TaxAmount(Subtotal(items)),
     total_amount |-> TotalAmount(Subtotal(items)),
     items |-> items, txn |-> r]

Insert(invs, i, row) == [j \in DOMAIN invs \cup {i} |-> IF j = i THEN row ELSE invs[j]]

Delete(invs, i) == [j \in DOMAIN invs \ {i} |-> invs[j]]

Commit(invs, i) == [invs EXCEPT ![i].txn = 0]

(***************************************************************************)
(* The rest of create_invoice, lines 349-414: the customer, the INSERT of  *)
(* the invoice, the posted lines, the totals, and the commit unless the    *)
(* post asks to complete the sale, which goes on to finalize_and_pay in    *)
(* the same transaction.                                                   *)
(***************************************************************************)
create_invoice(r, name, lines, action) ==
    LET n     == req[r].invoice_number
        i     == Min(InvoiceIds \ DOMAIN invoice)
        fs    == FirstShort(lines)
        kept  == IF fs = 0 THEN Len(lines) ELSE fs - 1
        items == Items(SubSeq(lines, 1, kept))
    IN
    /\ req[r].pc = "create"
    /\ \A k \in 1..Len(lines) : lines[k][1] \in DOMAIN product
    /\ ~NumberPending(r, n)
    /\ IF NumberTaken(n)
       THEN \* IntegrityError: the atomic block rolls back
            /\ Finish(r, Msg("Error creating invoice: IntegrityError"))
            /\ UNCHANGED <<customer, invoice>>
       ELSE IF fs # 0
       THEN \* line 384 returns inside the atomic block, which commits
            /\ invoice' = Insert(invoice, i, [NewInvoice(0, n, items) EXCEPT
                                   !.subtotal = 0, !.tax_amount = 0, !.total_amount = 0])
            /\ customer' = customer \cup {name}
            /\ Finish(r, Msg("Not enough stock"))
       ELSE IF lines = <<>>
       THEN \* invoice.delete(), and the return commits the customer
            /\ customer' = customer \cup {name}
            /\ Finish(r, Msg("Please add at least one item to the invoice"))
            /\ UNCHANGED invoice
       ELSE IF action = "complete"
       THEN /\ invoice' = Insert(invoice, i, NewInvoice(r, n, items))
            /\ req' = [req EXCEPT ![r] =
                         [pc |-> "fin_loop", kind |-> "create", invoice_id |-> i,
                          m |-> [is_paid |-> FALSE, paid_at |-> 0],
                          items |-> items, idx |-> 1,
                          tx |-> [NoTx EXCEPT !.customer = {name} \ customer]]]
            /\ UNCHANGED <<customer, message>>
       ELSE /\ invoice' = Insert(invoice, i, NewInvoice(0, n, items))
            /\ customer' = customer \cup {name}
            /\ Finish(r, Msg("saved as draft!"))
    /\ UNCHANGED <<product, ledger, clock, served>>

(***************************************************************************)
(* view_invoice.  ViewLoad: get_object_or_404(Invoice), the row read into  *)
(* the handler (the fields Invoice.save writes back and that change).      *)
(***************************************************************************)
ViewLoad(r, i) ==
    /\ req[r] = Idle
    /\ i \in DOMAIN invoice
    /\ invoice[i].txn = 0
    /\ Accept("other")
    /\ req' = [req EXCEPT ![r] =
                 [pc |-> "view", invoice_id |-> i,
                  m |-> [is_paid |-> invoice[i].is_paid, paid_at |-> invoice[i].paid_at]]]
    /\ UNCHANGED <<product, customer, invoice, ledger, clock, message>>

\* a handler that calls finalize_and_pay without looking at is_paid
view_invoice_finalize_Unguarded(r) ==
    LET q == req[r] IN
    /\ q.pc = "view"
    /\ req' = [req EXCEPT ![r] =
                 [pc |-> "fin_loop", kind |-> "view", invoice_id |-> q.invoice_id,
                  m |-> q.m, items |-> invoice[q.invoice_id].items, idx |-> 1,
                  tx |-> NoTx]]
    /\ UNCHANGED <<product, customer, invoice, ledger, clock, served, message>>

\* POST 'finalize', lines 432-438 and 465
view_invoice_finalize(r) ==
    LET q == req[r] IN
    /\ q.pc = "view"
    /\ IF q.m.is_paid
       THEN /\ invoice' = InvoiceSave(invoice, q.invoice_id, q.m)
            /\ Finish(r, Msg(""))
       ELSE \* finalize_and_pay: the transaction starts, self.items.all()
            /\ req' = [req EXCEPT ![r] =
                         [pc |-> "fin_loop", kind |-> "view", invoice_id |-> q.invoice_id,
                          m |-> q.m, items |-> invoice[q.invoice_id].items, idx |-> 1,
                          tx |-> NoTx]]
            /\ UNCHANGED <<invoice, message>>
    /\ UNCHANGED <<product, customer, ledger, clock, served>>

\* POST 'add_item', lines 440-452 and 465
view_invoice_add_item(r, p, qty) ==
    LET q == req[r]
        i == q.invoice_id
    IN
    /\ q.pc = "view"
    /\ p \in DOMAIN product
    /\ IF product[p].quantity < qty
       THEN /\ invoice' = InvoiceSave(invoice, i, q.m)
            /\ Finish(r, Msg("Only in stock"))
       ELSE /\ Len(invoice[i].items) < MaxItems
            /\ invoice' = InvoiceSave(
                   [invoice EXCEPT ![i].items = Append(@, InvoiceItem(p, qty))], i, q.m)
            /\ Finish(r, Msg("Item added"))
    /\ UNCHANGED <<product, customer, ledger, clock, served>>

\* POST 'delete_item', lines 454-465
view_invoice_delete_item(r, k) ==
    LET q  == req[r]
        i  == q.invoice_id
        it == invoice[i].items[k]
    IN
    /\ q.pc = "view"
    /\ k \in 1..Len(invoice[i].items)
    /\ IF q.m.is_paid
       THEN /\ invoice' = InvoiceSave(invoice, i, q.m)
            /\ Finish(r, Msg("Cannot edit paid invoice"))
            /\ UNCHANGED product
       ELSE /\ ~LockedByOther(r, it.product)
            /\ product' = [product EXCEPT ![it.product].quantity = @ + it.quantity]
            /\ invoice' = InvoiceSave(
                   [invoice EXCEPT ![i].items = RemoveAt(@, k)], i, q.m)
            /\ Finish(r, Msg("Item removed"))
    /\ UNCHANGED <<customer, ledger, clock, served>>

(***************************************************************************)
(* Invoice.finalize_and_pay, lines 122-140, one line item at a time.  A    *)
(* step ends where the request next touches what others can see or hold:   *)
(* FinRead reads the first product row, FinWrite writes a row (taking its  *)
(* lock) and goes on to the next read, or to the payment and the commit.   *)
(***************************************************************************)
\* a read of the committed row, which misses the transaction's own writes
ReadProduct_Committed(tx, p) == product[p]

\* the row item.product reads: the transaction sees its own writes
ReadProduct(tx, p) == IF p \in DOMAIN tx.product THEN tx.product[p] ELSE product[p]

\* a loop without the sufficiency check
Insufficient_Unchecked(row, item) == FALSE

\* the sufficiency check of line 124
Insufficient(row, item) == row.quantity < item.quantity

\* lines 127-136: the decrement, product.save() and the OUT entry, written
\* in the transaction
WriteItem(r, tx, row, item) ==
    [tx EXCEPT
       !.product = [p \in DOMAIN @ \cup {item.product} |->
                      IF p = item.product
                      THEN [row EXCEPT !.quantity = @ - item.quantity]
                      ELSE @[p]],
       !.ledger = Append(@, StockHistory(item.product, "OUT", -item.quantity,
                              <<"Sold via", invoice[req[r].invoice_id].invoice_number>>,
                              UserOf(r)))]

\* what the handler does with the exception of a failed finalize_and_pay:
\* view_invoice saves the invoice (line 465); create_invoice returns inside
\* its atomic block, which commits the invoice it created
AfterFailure(r) ==
    LET q == req[r] IN
    IF q.kind = "view"
    THEN /\ invoice' = InvoiceSave(invoice, q.invoice_id, q.m)
         /\ UNCHANGED customer
    ELSE /\ invoice' = Commit(invoice, q.invoice_id)
         /\ customer' = customer \cup q.tx.customer

\* ValueError at item k: the atomic block of finalize_and_pay rolls back
FinFail(r, tx, k) ==
    /\ product' = RollbackProducts(tx)
    /\ ledger' = RollbackLedger(tx)
    /\ AfterFailure(r)
    /\ Finish(r, [text |-> "Insufficient stock", item |-> k])
    /\ UNCHANGED clock

\* lines 138-140 and the commit
FinPay(r, tx) ==
    LET q == req[r]
        m == [is_paid |-> TRUE, paid_at |-> clock + 1]
    IN
    /\ clock' = clock + 1
    /\ product' = CommitProducts(tx)
    /\ ledger' = ledger \o tx.ledger
    /\ customer' = customer \cup tx.customer
    /\ invoice' = Commit(InvoiceSave(invoice, q.invoice_id, m), q.invoice_id)
    /\ Finish(r, Msg(IF q.kind = "view" THEN "paid!" ELSE "completed and paid!"))

\* the loop arrives at item k with tx written: item.product and the check
\* of line 124, or the end of the loop
FinItem(r, tx, k) ==
    LET q   == req[r]
        row == ReadProduct(tx, q.items[k].product)
    IN
    IF k > Len(q.items) THEN FinPay(r, tx)
    ELSE IF Insufficient(row, q.items[k]) THEN FinFail(r, tx, k)
    ELSE /\ req' = [req EXCEPT ![r] =
                      [pc |-> "fin_write", kind |-> q.kind, invoice_id |-> q.invoice_id,
                       m |-> q.m, items |-> q.items, idx |-> k, tx |-> tx, p |-> row]]
         /\ UNCHANGED <<product, ledger, invoice, customer, clock, message>>

FinRead(r) ==
    /\ req[r].pc = "fin_loop"
    /\ FinItem(r, req[r].tx, 1)
    /\ UNCHANGED served

FinWrite(r) ==
    LET q == req[r] IN
    /\ q.pc = "fin_write"
    /\ ~LockedByOther(r, q.items[q.idx].product)
    /\ FinItem(r, WriteItem(r, q.tx, q.p, q.items[q.idx]), q.idx + 1)
    /\ UNCHANGED served

\* the database gives up on a writer that waits for a row lock (deadlock,
\* lock timeout): the exception leaves every atomic block it passes
Abort(r) ==
    LET q == req[r] IN
    /\ q.pc = "fin_write"
    /\ LockedByOther(r, q.items[q.idx].product)
    /\ product' = RollbackProducts(q.tx)
    /\ ledger' = RollbackLedger(q.tx)
    /\ IF q.kind = "view"
       THEN /\ invoice' = InvoiceSave(invoice, q.invoice_id, q.m)
            /\ Finish(r, Msg("database error"))
       ELSE /\ invoice' = Delete(invoice, q.invoice_id)
            /\ Finish(r, Msg("Error creating invoice: OperationalError"))
    /\ UNCHANGED <<customer, clock, served>>

\* the line items a create_invoice request posts
Lines == UNION {[1..n -> ProductIds \X ItemQtys] : n \in 0..MaxItems}

Next ==
    \/ \E r \in Slots, sku \in ProductIds, qty \in InitialQtys : add_product(r, sku, qty)
    \/ \E r \in Slots, p \in ProductIds : StockLoad(r, p)
    \/ \E r \in Slots, action \in Actions, qty \in StockQtys : update_stock(r, action, qty)
    \/ \E r \in Slots, qty \in StockQtys : low_stock_list(r, qty)
    \/ \E r \in Slots : RestockHistory(r)
    \/ \E r \in Slots, price \in EditPrices : edit_product(r, price)
    \/ \E r \in Slots : CreateBegin(r)
    \/ \E r \in Slots, name \in Names, lines \in Lines, action \in {"draft", "complete"} : create_invoice(r, name, lines, action)
    \/ \E r \in Slots, i \in InvoiceIds : ViewLoad(r, i)
    \/ \E r \in Slots : view_invoice_finalize(r)
    \/ \E r \in Slots, p \in ProductIds, qty \in ItemQtys :
          view_invoice_add_item(r, p, qty)
    \/ \E r \in Slots, k \in 1..MaxItems : view_invoice_delete_item(r, k)
    \/ \E r \in Slots : FinRead(r)
    \/ \E r \in Slots : FinWrite(r)
    \/ \E r \in Slots : Abort(r)

Spec == Init /\ [][Next]_vars

(***************************************************************************)
(* Invoices created one after another on one day.  The table starts with   *)
(* the k invoices of k earlier creations of that day, numbered 1..k (no    *)
(* view deletes a saved invoice), for a few small k and for k around       *)
(* 10^Width, where the text of the number grows by one character.          *)
(***************************************************************************)
SavedCounts == 0..MaxSaved \cup ((10 ^ Width - 2)..(10 ^ Width))

InitSaved ==
    /\ product = <<[quantity |-> MaxQuantity, selling_price |-> PriceOf(1)]>>
    /\ customer = Names
    /\ ledger = <<StockHistory(1, "IN", MaxQuantity, <<"Initial stock", 0>>, "admin")>>
    /\ \E k \in SavedCounts :
          invoice = [i \in 1..k |-> NewInvoice(0, i, Items(<<<<1, 1>>>>))]
    /\ clock = 0
    /\ req = [r \in Slots |-> Idle]
    /\ message = Msg("")
    /\ served = [stock |-> 0, other |-> 0]

\* create_invoice saving a draft, from the request to the response, with no
\* other request in between: CreateBegin followed by create_invoice
SaveDraft(r, name, lines) ==
    LET n == generate_invoice_number(r)
        i == Cardinality(DOMAIN invoice) + 1
    IN
    /\ \A o \in Slots : req[o] = Idle
    /\ Accept("other")
    /\ lines # <<>>
    /\ FirstShort(lines) = 0
    /\ IF NumberTaken(n)
       THEN /\ message' = Msg("Error creating invoice: IntegrityError")
            /\ UNCHANGED <<customer, invoice>>
       ELSE /\ invoice' = Insert(invoice, i, NewInvoice(0, n, Items(lines)))
            /\ customer' = customer \cup {name}
            /\ message' = Msg("saved as draft!")
    /\ UNCHANGED <<product, ledger, clock, req>>

\* every draft has the one line the saved ones have: the number does not
\* depend on the lines
NextSaved ==
    \E r \in Slots, name \in Names, lines \in {<<<<1, 1>>>>} : SaveDraft(r, name, lines)

SpecSaved == InitSaved /\ [][NextSaved]_vars

(***************************************************************************)
(* The requests served one at a time: a request is accepted only when no   *)
(* other is under way, so each runs from its first step to its response    *)
(* with no other in between.  Nothing waits for a lock, so no request is   *)
(* aborted.                                                                *)
(***************************************************************************)
Alone(r) == \A o \in Slots \ {r} : req[o] = Idle

NextAlone ==
    \/ \E r \in Slots, sku \in ProductIds, qty \in InitialQtys :
          Alone(r) /\ add_product(r, sku, qty)
    \/ \E r \in Slots, p \in ProductIds : Alone(r) /\ StockLoad(r, p)
    \/ \E r \in Slots, action \in Actions, qty \in StockQtys :
          Alone(r) /\ update_stock(r, action, qty)
    \/ \E r \in Slots, qty \in StockQtys : Alone(r) /\ low_stock_list(r, qty)
    \/ \E r \in Slots : Alone(r) /\ RestockHistory(r)
    \/ \E r \in Slots, price \in EditPrices : Alone(r) /\ edit_product(r, price)
    \/ \E r \in Slots : Alone(r) /\ CreateBegin(r)
    \/ \E r \in Slots, name \in Names, lines \in Lines, action \in {"draft", "complete"} :
          Alone(r) /\ create_invoice(r, name, lines, action)
    \/ \E r \in Slots, i \in InvoiceIds : Alone(r) /\ ViewLoad(r, i)
    \/ \E r \in Slots : Alone(r) /\ view_invoice_finalize(r)
    \/ \E r \in Slots, p \in ProductIds, qty \in ItemQtys :
          Alone(r) /\ view_invoice_add_item(r, p, qty)
    \/ \E r \in Slots, k \in 1..MaxItems : Alone(r) /\ view_invoice_delete_item(r, k)
    \/ \E r \in Slots : Alone(r) /\ FinRead(r)
    \/ \E r \in Slots : Alone(r) /\ FinWrite(r)

SpecAlone == Init /\ [][NextAlone]_vars

(***************************************************************************)
(* Properties.                                                             *)
(***************************************************************************)
\* the sum of the deltas of the ledger entries of product p
RECURSIVE SumDeltas(_, _)
SumDeltas(led, p) ==
    IF Len(led) = 0 THEN 0
    ELSE (IF Head(led).product = p THEN Head(led).quantity ELSE 0) + SumDeltas(Tail(led), p)

\* add_product stored a negative posted quantity for p
CreatedNegative(p) ==
    \E k \in DOMAIN ledger :
        /\ ledger[k].product = p
        /\ ledger[k].note = <<"Initial stock", 0>>
        /\ ledger[k].quantity < 0

\* the committed paid invoices that have a line of product p
PaidWith(p) ==
    {i \in DOMAIN invoice :
        /\ invoice[i].txn = 0
        /\ invoice[i].is_paid
        /\ \E k \in DOMAIN invoice[i].items : invoice[i].items[k].product = p}

Finalizing(r) == req[r].pc \in {"fin_loop", "fin_write"}

\* the step in which r's finalize_and_pay raises the ValueError
FinalizeFailed(r) ==
    Finalizing(r) /\ req'[r] = Idle /\ message'.text = "Insufficient stock"

\* a step of r's finalize_and_pay that goes on to the next item
FinalizeGoesOn(r) ==
    Finalizing(r) /\ req'[r] # req[r] /\ req'[r].pc = "fin_write"

C2_FailedFinalizeChangesNothing ==
    [][\A r \in Slots :
          /\ FinalizeGoesOn(r) => (product' = product /\ ledger' = ledger)
          /\ FinalizeFailed(r) =>
                /\ product' = product
                /\ ledger' = ledger
                /\ ~invoice'[req[r].invoice_id].is_paid]_vars

\* a finalize has failed at an item after the first: the decrement and the
\* ledger entry of the items before it had been written in the transaction
C2_FailedAfterFirstItem ==
    message.text = "Insufficient stock" /\ message.item >= 2

(***************************************************************************)
(* C3: calling finalize on an invoice that is already paid (the handler    *)
(* holds the stored, paid row) changes no product quantity, appends no     *)
(* ledger entry and leaves the invoice's paid flag, paid timestamp and     *)
(* totals unchanged: the call is over at once and every table is as it was. *)
(***************************************************************************)
\* the invoice object r loaded is the row now stored
FreshInvoice(r) ==
    LET row == invoice[req[r].invoice_id]
    IN  req[r].m = [is_paid |-> row.is_paid, paid_at |-> row.paid_at]

C3_FinalizePaidIsNoOp ==
    [][\A r \in Slots :
          (req[r].pc = "view" /\ req[r].m.is_paid /\ FreshInvoice(r)
             /\ view_invoice_finalize(r))
          => /\ product' = product
             /\ ledger' = ledger
             /\ invoice' = invoice
             /\ req'[r] = Idle]_vars

\* only invoice requests were served, an invoice is paid, and the last
\* request to end left no message: it posted finalize for a paid invoice
C3_FinalizedAgain ==
    /\ message = Msg("")
    /\ served.stock = 0
    /\ \A r \in Slots : req[r] = Idle
    /\ \E i \in DOMAIN invoice : invoice[i].is_paid

(***************************************************************************)
(* C4: for every product, after any sequence of operations that touch      *)
(* stock, the quantity equals the initial quantity plus the sum of the     *)
(* deltas of the product's ledger entries.  The initial quantity q0 is     *)
(* itself in the ledger (the 'Initial stock' entry of add_product, absent  *)
(* when q0 = 0), so the quantity is to equal the sum of all the deltas.    *)
(* A quick restock that has saved the product and not yet written its      *)
(* entry is an operation under way: such states are left out.              *)
(***************************************************************************)
C4_QuantityIsLedgerSum ==
    (\A r \in Slots : req[r].pc # "restock")
    => \A p \in DOMAIN product : product[p].quantity = SumDeltas(ledger, p)

(***************************************************************************)
(* C5: for every unpaid invoice, after each completed add-item or          *)
(* remove-item operation and after every save, the persisted subtotal is   *)
(* the sum of quantity x unit_price over the invoice's items, tax_amount   *)
(* is subtotal * tax_rate / 100 and total_amount is subtotal + tax_amount. *)
(* C5_TotalsExact states it with exact equality; C5_TotalsRounded with     *)
(* tax_amount and total_amount rounded to the cent, as the columns of two   *)
(* decimal places store them.                                              *)
(***************************************************************************)
\* a step in which request r ends having saved invoice i: every end of
\* view_invoice but the receipt, a failed finalize, the draft of
\* create_invoice
SavesInvoice(r, i) ==
    /\ req[r] # Idle
    /\ req'[r] = Idle
    /\ i \in DOMAIN invoice'
    /\ invoice'[i].txn = 0
    /\ \/ "invoice_id" \in DOMAIN req[r] /\ req[r].invoice_id = i
       \/ i \notin DOMAIN invoice /\ message'.text = "saved as draft!"

SubtotalMatches(row) == row.subtotal = Subtotal(row.items)

C5_TotalsExact ==
    [][\A r \in Slots, i \in InvoiceIds :
          (SavesInvoice(r, i) /\ ~invoice'[i].is_paid)
          => /\ SubtotalMatches(invoice'[i])
             /\ 100 * invoice'[i].tax_amount = invoice'[i].subtotal * TaxRate
             /\ invoice'[i].total_amount = invoice'[i].subtotal + invoice'[i].tax_amount]_vars

\* x is n/100 rounded to the nearest integer
Nearest(x, n) == 2 * (100 * x - n) <= 100 /\ 2 * (n - 100 * x) <= 100

C5_TotalsRounded ==
    [][\A r \in Slots, i \in InvoiceIds :
          (SavesInvoice(r, i) /\ ~invoice'[i].is_paid)
          => /\ SubtotalMatches(invoice'[i])
             /\ Nearest(invoice'[i].tax_amount, invoice'[i].subtotal * TaxRate)
             /\ Nearest(invoice'[i].total_amount,
                        100 * invoice'[i].subtotal + invoice'[i].subtotal * TaxRate)
             /\ invoice'[i].total_amount = invoice'[i].subtotal + invoice'[i].tax_amount]_vars

\* an item was added to an unpaid invoice whose tax is not a whole number
\* of pesewas, and the stored tax is the rounded one
C5_ItemAddedTaxRounded ==
    /\ message.text = "Item added"
    /\ \E i \in DOMAIN invoice :
          /\ ~invoice[i].is_paid
          /\ Len(invoice[i].items) >= 2
          /\ SubtotalMatches(invoice[i])
          /\ 100 * invoice[i].tax_amount # invoice[i].subtotal * TaxRate

(***************************************************************************)
(* C6: when two finalize operations on different invoices of the same      *)
(* product overlap and the quantity cannot cover both, at most one of them *)
(* passes the check and pays its invoice: what paid invoices have sold of  *)
(* a product never exceeds the stock that was available.  With sales the   *)
(* only stock operations requested and two invoices of the product paid,   *)
(* the product's ledger (received and sold) does not sum to less than 0.   *)
(***************************************************************************)
C6_PaidSalesWithinStock ==
    \A p \in DOMAIN product :
        (served.stock = 0 /\ ~CreatedNegative(p) /\ Cardinality(PaidWith(p)) >= 2)
        => SumDeltas(ledger, p) >= 0

(***************************************************************************)
(* C7: once an invoice is paid its line items never change: no step adds   *)
(* an item to, removes an item from or alters an item of a paid invoice.   *)
(***************************************************************************)
C7_PaidItemsFrozen ==
    [][\A i \in DOMAIN invoice :
          (invoice[i].txn = 0 /\ invoice[i].is_paid /\ i \in DOMAIN invoice')
          => invoice'[i].items = invoice[i].items]_vars

(***************************************************************************)
(* C8: no two persisted invoices ever share an invoice number; when two    *)
(* creations compute the same next number, the one that inserts second     *)
(* fails on the unique index and persists nothing.                         *)
(***************************************************************************)
\* the step in which r's creation fails on the unique index
CreateConflict(r) ==
    /\ req[r].pc = "create"
    /\ req'[r] = Idle
    /\ message'.text = "Error creating invoice: IntegrityError"

C8_InvoiceNumbersUnique ==
    [][/\ \A i, j \in DOMAIN invoice' :
             i # j => invoice'[i].invoice_number # invoice'[j].invoice_number
       /\ \A r \in Slots :
             CreateConflict(r) =>
                (invoice' = invoice /\ customer' = customer
                   /\ product' = product /\ ledger' = ledger)]_vars

\* a creation computed the number of an invoice that another creation
\* committed first, and failed: the number is stored once
C8_ConflictingCreationFailed ==
    /\ message.text = "Error creating invoice: IntegrityError"
    /\ \E i \in DOMAIN invoice : invoice[i].txn = 0 /\ invoice[i].invoice_number = 1
    /\ \A i \in DOMAIN invoice : invoice[i].invoice_number = 1

(***************************************************************************)
(* C9: in every reachable state every line item of every paid invoice has  *)
(* its own OUT ledger entry for the item's product, with delta minus the   *)
(* item quantity, the invoice number in the note and the acting user: an   *)
(* invoice is never paid with only some of its items applied.              *)
(***************************************************************************)
ItemsLike(i, p, n) ==
    {k \in DOMAIN invoice[i].items :
        invoice[i].items[k].product = p /\ invoice[i].items[k].quantity = n}

SaleEntries(i, p, n) ==
    {k \in DOMAIN ledger :
        ledger[k] = StockHistory(p, "OUT", -n, <<"Sold via", invoice[i].invoice_number>>,
                                 "admin")}

C9_PaidItemsHaveLedgerEntries ==
    \A i \in DOMAIN invoice :
        (invoice[i].txn = 0 /\ invoice[i].is_paid) =>
            \A p \in ProductIds, n \in ItemQtys :
                Cardinality(ItemsLike(i, p, n)) <= Cardinality(SaleEntries(i, p, n))

(***************************************************************************)
(* C10: stock Remove of n (n >= 1) on a product with current quantity q,   *)
(* the product being as the handler read it: if n <= q the quantity        *)
(* becomes q - n and exactly one OUT ledger entry with delta -n is         *)
(* appended; if n > q the operation is rejected, the quantity stays q and  *)
(* no ledger entry is appended.                                            *)
(***************************************************************************)
C10_RemoveChecksStock ==
    [][\A r \in Slots, n \in 1..MaxQuantity :
          (req[r].pc = "stock" /\ req[r].p = product[req[r].product_id]
             /\ update_stock(r, "remove", n))
          => LET p == req[r].product_id
                 q == product[p].quantity
             IN  IF n <= q
                 THEN /\ product'[p].quantity = q - n
                      /\ ledger' = Append(ledger, StockHistory(p, "OUT", -n, <<"note", 0>>,
                                                               UserOf(r)))
                 ELSE /\ product' = product
                      /\ ledger' = ledger
                      /\ message'.text = "Only in stock"]_vars

\* a remove was accepted (its OUT entry is in the ledger) and a later one,
\* for more than was left, was rejected; no invoice request was served
C10_RemovedThenRejected ==
    /\ message.text = "Only in stock"
    /\ invoice = <<>>
    /\ served.stock = 2
    /\ \E k \in DOMAIN ledger :
          /\ ledger[k].transaction_type = "OUT"
          /\ ledger[k].quantity = -1
          /\ product[ledger[k].product].quantity = MaxQuantity - 1

(***************************************************************************)
(* C11: stock Set to n, for every n >= 0 (n = 0 included), on a product    *)
(* with previous quantity q, the product being as the handler read it: the *)
(* quantity becomes n; if n # q exactly one ADJ ledger entry with delta    *)
(* n - q is appended, and if n = q none is.                                *)
(***************************************************************************)
\* the step in which request r posts action with quantity n to update_stock
\* and ends, the product being as r read it
StockPost(r, action, n) ==
    /\ req[r].pc = "stock"
    /\ req[r].p = product[req[r].product_id]
    /\ update_stock(r, action, n)

C11_SetStoresQuantity ==
    [][\A r \in Slots, n \in 0..MaxQuantity :
          StockPost(r, "set", n)
          => LET p == req[r].product_id
                 q == product[p].quantity
             IN  /\ product'[p].quantity = n
                 /\ ledger' = IF n # q
                              THEN Append(ledger, StockHistory(p, "ADJ", n - q, <<"note", 0>>,
                                                               UserOf(r)))
                              ELSE ledger]_vars

(***************************************************************************)
(* C12: stock Add of n, the product being as the handler read it: if       *)
(* n <= 0 the quantity and the ledger are unchanged (update_stock answers  *)
(* with its validation error); if n > 0 the quantity increases by exactly  *)
(* n and exactly one IN ledger entry with delta +n is appended in the same *)
(* step.  Add is posted to update_stock or as the quick restock of         *)
(* low_stock_list.                                                         *)
(***************************************************************************)
\* the step in which request r posts the quick restock of n
RestockPost(r, n) ==
    /\ req[r].pc = "stock"
    /\ req[r].p = product[req[r].product_id]
    /\ low_stock_list(r, n)

Added(r, n, note) ==
    LET p == req[r].product_id IN
    IF n <= 0
    THEN product' = product /\ ledger' = ledger
    ELSE /\ product'[p].quantity = product[p].quantity + n
         /\ ledger' = Append(ledger, StockHistory(p, "IN", n, note, UserOf(r)))

C12_AddIsOneStep ==
    [][\A r \in Slots, n \in StockQtys :
          /\ StockPost(r, "add", n)
             => /\ Added(r, n, <<"note", 0>>)
                /\ n <= 0 => message'.text = "Quantity must be > 0"
          /\ RestockPost(r, n) => Added(r, n, <<"Quick restock", 0>>)]_vars

(***************************************************************************)
(* C13: in every reachable state every stored ledger entry of kind OUT has *)
(* a negative quantity and every stored ledger entry of kind IN or ADJ has *)
(* a non-negative quantity.                                                *)
(***************************************************************************)
C13_LedgerSigns ==
    \A k \in 1..Len(ledger) :
        IF ledger[k].transaction_type = "OUT"
        THEN ledger[k].quantity < 0
        ELSE ledger[k].quantity >= 0

(***************************************************************************)
(* C14: when invoice creation is rejected (a submitted line asks for more  *)
(* than the product's available quantity, or no valid line is submitted),  *)
(* the request makes no change: no invoice, no invoice item and no new     *)
(* customer created by that request remains persisted.                     *)
(***************************************************************************)
\* the step in which create_invoice of request r ends with a rejection
CreateRejected(r) ==
    /\ req[r].pc = "create"
    /\ req'[r] = Idle
    /\ message'.text \in {"Not enough stock", "Please add at least one item to the invoice"}

C14_RejectedCreateChangesNothing ==
    [][\A r \in Slots :
          CreateRejected(r)
          => /\ invoice' = invoice
             /\ customer' = customer
             /\ product' = product
             /\ ledger' = ledger]_vars

(***************************************************************************)
(* C15: the only invoice state transition is DRAFT to PAID: once an        *)
(* invoice is paid it remains paid in every later state, and its paid      *)
(* timestamp is not changed by any later operation.                        *)
(***************************************************************************)
C15_PaidStaysPaid ==
    [][\A i \in DOMAIN invoice :
          (invoice[i].txn = 0 /\ invoice[i].is_paid)
          => /\ i \in DOMAIN invoice'
             /\ invoice'[i].is_paid
             /\ invoice'[i].paid_at = invoice[i].paid_at]_vars

(***************************************************************************)
(* C16: an invoice saved without a number gets the number 1 when no        *)
(* invoice of the day exists and otherwise one more than the largest       *)
(* existing number of the day; invoices created one after another on the   *)
(* same day get distinct, strictly increasing numbers, for any number of   *)
(* invoices.                                                               *)
(***************************************************************************)
C16_NumbersIncrease ==
    [][served' # served
       => \E i \in DOMAIN invoice' \ DOMAIN invoice :
             /\ invoice = <<>> => invoice'[i].invoice_number = 1
             /\ \A j \in DOMAIN invoice :
                   invoice'[i].invoice_number > invoice[j].invoice_number
             /\ \E j \in DOMAIN invoice' :
                   invoice'[i].invoice_number = invoice'[j].invoice_number + 1
                   \/ invoice = <<>>]_vars

(***************************************************************************)
(* C17: when creating an invoice fails on the invoice-number uniqueness    *)
(* constraint because a concurrent creation took the same number, the      *)
(* caller retries the creation, so the invoice is eventually persisted     *)
(* with a distinct number: the request does not end on the conflict with   *)
(* no invoice of its own saved.                                            *)
(***************************************************************************)
C17_ConflictIsRetried ==
    [][\A r \in Slots :
          CreateConflict(r)
          => \E i \in DOMAIN invoice' \ DOMAIN invoice :
                /\ invoice'[i].txn = 0
                /\ \A j \in DOMAIN invoice :
                      invoice'[i].invoice_number # invoice[j].invoice_number]_vars

(***************************************************************************)
(* C18: an invoice item's unit price is fixed when the item is added (the  *)
(* product's selling price at that moment): a later change of the          *)
(* product's selling price changes neither the unit price of existing      *)
(* invoice items nor the subtotal, tax or total of any existing invoice,   *)
(* also after the invoice is saved again.  In every step the items of an   *)
(* invoice stay as they are but for one item added at the selling price of *)
(* the moment or one item removed, and the totals stay as they are or      *)
(* become the totals of the stored unit prices.                            *)
(***************************************************************************)
\* the sum of quantity times stored unit price
RECURSIVE StoredSum(_)
StoredSum(items) ==
    IF Len(items) = 0 THEN 0
    ELSE Head(items).quantity * Head(items).unit_price + StoredSum(Tail(items))

AtSellingPrice(item) == item.unit_price = product[item.product].selling_price

TotalsOfStoredPrices(row) ==
    /\ row.subtotal = StoredSum(row.items)
    /\ row.tax_amount = TaxAmount(row.subtotal)
    /\ row.total_amount = TotalAmount(row.subtotal)

C18_UnitPriceFixed ==
    [][\A i \in DOMAIN invoice' :
          IF i \notin DOMAIN invoice
          THEN \A k \in DOMAIN invoice'[i].items : AtSellingPrice(invoice'[i].items[k])
          ELSE LET old == invoice[i]
                   new == invoice'[i]
               IN  /\ \/ new.items = old.items
                      \/ /\ Len(new.items) = Len(old.items) + 1
                         /\ SubSeq(new.items, 1, Len(old.items)) = old.items
                         /\ AtSellingPrice(new.items[Len(new.items)])
                      \/ \E k \in DOMAIN old.items : new.items = RemoveAt(old.items, k)
                   /\ \/ /\ new.subtotal = old.subtotal
                         /\ new.tax_amount = old.tax_amount
                         /\ new.total_amount = old.total_amount
                      \/ TotalsOfStoredPrices(new)]_vars

\* an invoice holds an item added before the selling price was changed and
\* an item added after it, and was saved since: its totals are those of the
\* two stored unit prices
C18_SavedAfterPriceChange ==
    \E i \in DOMAIN invoice :
        /\ invoice[i].txn = 0
        /\ Len(invoice[i].items) = 2
        /\ invoice[i].items[1].product = invoice[i].items[2].product
        /\ invoice[i].items[1].unit_price # invoice[i].items[2].unit_price
        /\ AtSellingPrice(invoice[i].items[2])
        /\ invoice[i].subtotal > 0
        /\ TotalsOfStoredPrices(invoice[i])

(***************************************************************************)
(* C19: for every invoice, under any interleaving of finalize requests for *)
(* that same invoice (each request loading the invoice before the other    *)
(* has marked it paid), the stock decrement and the OUT ledger entry of    *)
(* each line item are applied at most once: a finalize that commits finds  *)
(* no OUT entry of the invoice in the ledger and leaves one for each item  *)
(* it read.                                                                *)
(***************************************************************************)
\* the step in which r's finalize_and_pay commits
FinalizePays(r) ==
    Finalizing(r) /\ req'[r] = Idle /\ message'.text \in {"paid!", "completed and paid!"}

\* the OUT entries written for invoice i
SoldVia(led, i) ==
    {k \in DOMAIN led : led[k].note = <<"Sold via", invoice[i].invoice_number>>}

C19_ItemsAppliedOnce ==
    [][\A r \in Slots :
          FinalizePays(r)
          => LET i == req[r].invoice_id
             IN  /\ SoldVia(ledger, i) = {}
                 /\ Cardinality(SoldVia(ledger', i)) = Len(req[r].items)]_vars

(***************************************************************************)
(* C20: when an unpaid invoice has two or more line items for the same     *)
(* product whose quantities sum to more than the product's current         *)
(* quantity, finalize fails, the invoice stays unpaid, the product's       *)
(* quantity is unchanged and no ledger entry is added, even though each    *)
(* single item quantity is within the current quantity.  Stated for        *)
(* requests served one at a time: no step of such a finalize changes the   *)
(* product or the ledger table or pays the invoice, and it ends with the   *)
(* error.                                                                  *)
(***************************************************************************)
ItemsOf(items, p) == {k \in DOMAIN items : items[k].product = p}

RECURSIVE Demand(_, _)
Demand(items, p) ==
    IF Len(items) = 0 THEN 0
    ELSE (IF Head(items).product = p THEN Head(items).quantity ELSE 0) + Demand(Tail(items), p)

\* two or more of the items are of one product, each within its quantity,
\* together above it
Oversold(items) ==
    \E p \in DOMAIN product :
        /\ Cardinality(ItemsOf(items, p)) >= 2
        /\ \A k \in ItemsOf(items, p) : items[k].quantity <= product[p].quantity
        /\ Demand(items, p) > product[p].quantity

C20_OversoldFinalizeFails ==
    [][\A r \in Slots :
          (Finalizing(r) /\ req'[r] # req[r] /\ Oversold(req[r].items))
          => /\ product' = product
             /\ ledger' = ledger
             /\ ~invoice'[req[r].invoice_id].is_paid
             /\ req'[r] = Idle => message'.text = "Insufficient stock"]_vars

\* a finalize has failed at the second item of an unpaid invoice whose two
\* items are of one product, each within the quantity, and no OUT entry of
\* the invoice is in the ledger
C20_SecondItemRefused ==
    /\ message.text = "Insufficient stock"
    /\ message.item = 2
    /\ \A r \in Slots : req[r] = Idle
    /\ \E i \in DOMAIN invoice :
          /\ invoice[i].txn = 0
          /\ ~invoice[i].is_paid
          /\ Oversold(invoice[i].items)
          /\ SoldVia(ledger, i) = {}

(***************************************************************************)
(* C21: when two direct stock operations (Add, Remove or Set through       *)
(* update_stock, or the quick restock) on the same product interleave,     *)
(* neither update is lost: the final quantity is that of the two applied   *)
(* in some serial order, and it is the initial quantity plus the two       *)
(* ledger deltas.  Stated on the step in which an operation writes, with   *)
(* no invoice in the tables, so that stock operations are the only writers *)
(* of a quantity, on a product created with a quantity >= 0: the stored    *)
(* quantity changes by the delta the operation enters in the ledger,       *)
(* whatever was written since the operation read the product.              *)
(***************************************************************************)
\* the delta of the entry the step appends to the ledger, 0 when it appends none
Appended ==
    IF Len(ledger') = Len(ledger) + 1 THEN ledger'[Len(ledger')].quantity ELSE 0

C21_NoLostUpdate ==
    [][\A r \in Slots :
          (req[r].pc = "stock" /\ invoice = <<>> /\ ~CreatedNegative(req[r].product_id))
          => LET p == req[r].product_id IN
             /\ \A action \in Actions, n \in StockQtys :
                   update_stock(r, action, n)
                   => product'[p].quantity = product[p].quantity + Appended
             /\ \A n \in StockQtys :
                   (low_stock_list(r, n) /\ n > 0)
                   => product'[p].quantity = product[p].quantity + n]_vars

====
